---------------------------- MODULE Spec2Model ----------------------------
(* A model of the Select component of yew-mdc (src/components/select.rs):  *)
(* the fields of Select, its Component hooks (create, changed, rendered,    *)
(* update, view, destroy), the closure bridging the native change event to  *)
(* the component's message, and the MDCSelect controller it drives.         *)
EXTENDS Naturals, Integers, Sequences, FiniteSets, TLC

VARIABLES
    phase,            \* "unmounted" | "mounted" | "destroyed": the instance's life
    mounts,           \* how many instances were created so far
    props,            \* SelectProps of the current instance
    changed_callback, \* Select.changed_callback: <<>> before create, <<closure>> after
    inner,            \* Select.inner: Option<MDCSelect>, <<>> is None
    node_ref,         \* Select.node_ref: <<>> until the root element is rendered
    html,             \* the last output of view, <<>> before the first render
    needRender,       \* a hook returned true (or create ran): view is due
    renderedDue,      \* view ran: the rendered hook is due
    hasRendered,      \* rendered ran at least once for this instance
    ctrl,             \* the MDCSelect controller object behind the handle
    calls,            \* the calls made on the controller by this instance, in order
    delivered,        \* the native events the closure received, with what it did
    hostCalls,        \* the payloads the host's onchange callback was invoked with
    panicked          \* the closure's expect() failed: the program aborted

vars == <<phase, mounts, props, changed_callback, inner, node_ref, html,
          needRender, renderedDue, hasRendered, ctrl, calls, delivered,
          hostCalls, panicked>>

compVars == <<changed_callback, inner, node_ref>>

-----------------------------------------------------------------------------
(* Bounds of the model. *)
MaxMounts == 2
MaxEvents == 2

-----------------------------------------------------------------------------
(* Option<T>: None is <<>>, Some(x) is <<x>>. *)
None == <<>>
Some(x) == <<x>>
is_none(o) == o = <<>>
is_some(o) == o # <<>>
unwrap(o) == o[1]

(* The property values the host may supply. *)
Labels == {None, Some("Fruit")}
WidthClasses == {"select-width", "mdc-select--no-label", "mdc-menu-surface--fixed"}
Positions == {None, Some(<<0, 0>>)}
Options == <<"a", "b">>
SelectedValues == {None, Some("b")}

SelectProps ==
    [ id : {"sel"},
      select_width_class : WidthClasses,
      label : Labels,
      fixed_position : BOOLEAN,
      absolute_position : Positions,
      selected_value : SelectedValues ]

(* SelectChangeEventData { value: String, index: i64 } *)
SelectChangeEventData(value, index) == [value |-> value, index |-> index]

-----------------------------------------------------------------------------
(* JavaScript values carried by a CustomEvent's detail. *)
JsUndefined == [t |-> "undefined", s |-> "", n |-> 0]
JsString(s) == [t |-> "string", s |-> s, n |-> 0]
JsNumber(n) == [t |-> "number", s |-> "", n |-> n]
JsDetail(value, index) == [value |-> value, index |-> index]

Details ==
    { JsDetail(JsString("b"), JsNumber(1)),
      JsDetail(JsString(""), JsNumber(-1)),
      JsDetail(JsUndefined, JsNumber(1)),
      JsDetail(JsString("b"), JsUndefined),
      JsDetail(JsString("b"), JsString("1")) }

(* e.detail().into_serde::<SelectChangeEventData>(): Ok only for a string    *)
(* value and a number index.                                                 *)
into_serde(detail) ==
    IF detail.value.t = "string" /\ detail.index.t = "number"
    THEN [ok |-> TRUE, data |-> SelectChangeEventData(detail.value.s, detail.index.n)]
    ELSE [ok |-> FALSE, data |-> SelectChangeEventData("", 0)]

-----------------------------------------------------------------------------
(* The MDCSelect controller (crate::mdc_sys), by its calling contract.       *)
NoController ==
    [exists |-> FALSE, root |-> None, value |-> None, listeners |-> {}, destroyed |-> FALSE]

(* A world w threads the controller, the log of calls and the events the     *)
(* registered handler heard through one hook's sequence of calls.            *)
World(c, l, h) == [ctrl |-> c, calls |-> l, heard |-> h]

RECURSIVE IndexIn(_, _, _)
IndexIn(seq, v, i) ==
    IF i > Len(seq) THEN -1
    ELSE IF seq[i] = v THEN i - 1 ELSE IndexIn(seq, v, i + 1)

MDCSelect_new(w, elem) ==
    World([exists |-> TRUE, root |-> Some(elem), value |-> None,
           listeners |-> {}, destroyed |-> FALSE],
          Append(w.calls, [op |-> "new", arg |-> elem]),
          w.heard)

(* setValue selects the option and emits MDCSelect:change on the root; the   *)
(* handlers registered at that moment hear it.                               *)
MDCSelect_set_value(w, v) ==
    World([w.ctrl EXCEPT !.value = Some(v)],
          Append(w.calls, [op |-> "set_value", arg |-> v]),
          IF w.ctrl.listeners # {}
          THEN Append(w.heard, JsDetail(JsString(v), JsNumber(IndexIn(Options, v, 1))))
          ELSE w.heard)

MDCSelect_listen(w, ev, handler) ==
    World([w.ctrl EXCEPT !.listeners = @ \cup {<<ev, handler>>}],
          Append(w.calls, [op |-> "listen", arg |-> ev]),
          w.heard)

MDCSelect_unlisten(w, ev, handler) ==
    World([w.ctrl EXCEPT !.listeners = @ \ {<<ev, handler>>}],
          Append(w.calls, [op |-> "unlisten", arg |-> ev]),
          w.heard)

MDCSelect_destroy(w) ==
    World([w.ctrl EXCEPT !.destroyed = TRUE],
          Append(w.calls, [op |-> "destroy", arg |-> ""]),
          w.heard)

-----------------------------------------------------------------------------
(* yew's Classes: an ordered set of class names; pushing a name already      *)
(* present, or an absent Option, changes nothing.                            *)
InSeq(x, seq) == \E i \in 1..Len(seq) : seq[i] = x
push(cls, name) == IF InSeq(name, cls) THEN cls ELSE Append(cls, name)
push_opt(cls, o) == IF is_none(o) THEN cls ELSE push(cls, unwrap(o))

(* boolinator: b.as_some(x) *)
as_some(b, x) == IF b THEN Some(x) ELSE None
or_else(o, other) == IF is_some(o) THEN o ELSE other
unwrap_or_default(o) == IF is_some(o) THEN unwrap(o) ELSE ""

-----------------------------------------------------------------------------
(* The component's own fields, as one value the hooks take and return.       *)
SelfOf(cb, inn, nr) == [changed_callback |-> cb, inner |-> inn, node_ref |-> nr]

(* SelectMsg::Changed(data) *)
Changed(data) == [msg |-> "Changed", data |-> data]

(* The closure without stop_propagation. *)
changed_closure_no_stop(detail) ==
    LET event_data == into_serde(detail)
    IN  [ propagation_stopped |-> FALSE,
          panic |-> ~event_data.ok,
          emit |-> IF event_data.ok THEN <<Changed(event_data.data)>> ELSE <<>> ]

(* The closure with unwrap_or_default in place of expect. *)
changed_closure_lenient(detail) ==
    LET event_data == into_serde(detail)
    IN  [ propagation_stopped |-> TRUE,
          panic |-> FALSE,
          emit |-> <<Changed(event_data.data)>> ]

(* The closure built in create: stop the event, decode its detail, emit the  *)
(* Changed message; expect() panics on a detail of another shape.            *)
changed_closure(detail) ==
    LET event_data == into_serde(detail)
    IN  [ propagation_stopped |-> TRUE,
          panic |-> ~event_data.ok,
          emit |-> IF event_data.ok THEN <<Changed(event_data.data)>> ELSE <<>> ]

(* fn create: the closure, no controller, an empty node reference. *)
create(p) == SelfOf(Some("changed_closure"), None, None)

(* fn changed: always asks for a re-render. *)
changed(self, p) == TRUE

(* update returning true. *)
update_redraws(self, p, m) ==
    [ self |-> self,
      onchange |-> IF m.msg = "Changed" THEN <<m.data>> ELSE <<>>,
      redraw |-> TRUE ]

(* fn update: hand the payload to the host's onchange, ask for no re-render. *)
update(self, p, m) ==
    [ self |-> self,
      onchange |-> IF m.msg = "Changed" THEN <<m.data>> ELSE <<>>,
      redraw |-> FALSE ]

(* rendered without the first_render test. *)
rendered_every_render(self, p, w, first_render) ==
    IF is_some(self.node_ref)
    THEN LET elem == unwrap(self.node_ref)
             w1 == MDCSelect_new(w, elem)
             w2 == IF is_some(p.selected_value)
                   THEN MDCSelect_set_value(w1, unwrap(p.selected_value))
                   ELSE w1
             w3 == MDCSelect_listen(w2, "MDCSelect:change", unwrap(self.changed_callback))
         IN  [self |-> [self EXCEPT !.inner = Some("select")], w |-> w3]
    ELSE [self |-> self, w |-> w]

(* rendered listening before it applies the pre-selected value. *)
rendered_listen_first(self, p, w, first_render) ==
    IF first_render /\ is_some(self.node_ref)
    THEN LET elem == unwrap(self.node_ref)
             w1 == MDCSelect_new(w, elem)
             w2 == MDCSelect_listen(w1, "MDCSelect:change", unwrap(self.changed_callback))
             w3 == IF is_some(p.selected_value)
                   THEN MDCSelect_set_value(w2, unwrap(p.selected_value))
                   ELSE w2
         IN  [self |-> [self EXCEPT !.inner = Some("select")], w |-> w3]
    ELSE [self |-> self, w |-> w]

(* rendered dropping the handle instead of keeping it in inner. *)
rendered_drops_handle(self, p, w, first_render) ==
    IF first_render /\ is_some(self.node_ref)
    THEN LET elem == unwrap(self.node_ref)
             w1 == MDCSelect_new(w, elem)
             w2 == IF is_some(p.selected_value)
                   THEN MDCSelect_set_value(w1, unwrap(p.selected_value))
                   ELSE w1
             w3 == MDCSelect_listen(w2, "MDCSelect:change", unwrap(self.changed_callback))
         IN  [self |-> self, w |-> w3]
    ELSE [self |-> self, w |-> w]

(* fn rendered: on the first render, with the root element resolved,         *)
(* construct the controller, apply the pre-selected value, listen, keep the  *)
(* handle.                                                                   *)
rendered(self, p, w, first_render) ==
    IF first_render /\ is_some(self.node_ref)
    THEN LET elem == unwrap(self.node_ref)
             w1 == MDCSelect_new(w, elem)
             w2 == IF is_some(p.selected_value)
                   THEN MDCSelect_set_value(w1, unwrap(p.selected_value))
                   ELSE w1
             w3 == MDCSelect_listen(w2, "MDCSelect:change", unwrap(self.changed_callback))
         IN  [self |-> [self EXCEPT !.inner = Some("select")], w |-> w3]
    ELSE [self |-> self, w |-> w]

(* destroy without the test for a controller. *)
destroy_unguarded(self, w) ==
    LET w1 == MDCSelect_unlisten(w, "MDCSelect:change", unwrap(self.changed_callback))
        w2 == MDCSelect_destroy(w1)
    IN  [self |-> self, w |-> w2]

(* destroy destroying the controller before it unlistens. *)
destroy_then_unlisten(self, w) ==
    IF is_some(self.inner)
    THEN LET w1 == MDCSelect_destroy(w)
             w2 == MDCSelect_unlisten(w1, "MDCSelect:change", unwrap(self.changed_callback))
         IN  [self |-> self, w |-> w2]
    ELSE [self |-> self, w |-> w]

(* fn destroy: with a controller, unlisten and then destroy it. *)
destroy(self, w) ==
    IF is_some(self.inner)
    THEN LET w1 == MDCSelect_unlisten(w, "MDCSelect:change", unwrap(self.changed_callback))
             w2 == MDCSelect_destroy(w1)
         IN  [self |-> self, w |-> w2]
    ELSE [self |-> self, w |-> w]

(* The root's classes with the no-label test inverted. *)
classes_inverted(p) ==
    push_opt(push(push(push(<<>>, "mdc-select"), "mdc-select--filled"),
                  p.select_width_class),
             as_some(is_some(p.label), "mdc-select--no-label"))

(* fn view, the root element's classes. *)
classes(p) ==
    push_opt(push(push(push(<<>>, "mdc-select"), "mdc-select--filled"),
                  p.select_width_class),
             as_some(is_none(p.label), "mdc-select--no-label"))

(* The menu's classes with the full-width variant always added. *)
menu_classes_always_fullwidth(p) ==
    push(push_opt(push(push(push(push(<<>>, "mdc-menu"), "mdc-menu-surface"),
                            "mdc-select__menu"),
                       p.select_width_class),
                  as_some(p.fixed_position, "mdc-menu-surface--fixed")),
         "mdc-menu-surface--fullwidth")

(* fn view, the menu surface's classes. *)
menu_classes(p) ==
    push_opt(push(push(push(push(<<>>, "mdc-menu"), "mdc-menu-surface"),
                       "mdc-select__menu"),
                  p.select_width_class),
             or_else(as_some(p.fixed_position, "mdc-menu-surface--fixed"),
                     Some("mdc-menu-surface--fullwidth")))

(* fn view, the floating label: nothing without a label, one span with one. *)
label(p) ==
    IF is_none(p.label)
    THEN <<>>
    ELSE << [ tag |-> "span", id |-> p.id \o "-label",
              class |-> "mdc-floating-label", text |-> unwrap(p.label) ] >>

(* fn view: the markup the controller expects. *)
view(self, p) ==
    LET label_id == p.id \o "-label"
        selected_text_id == p.id \o "-selected-text"
    IN  [ id |-> p.id,
          class |-> classes(p),
          anchor |-> [ class |-> "mdc-select__anchor",
                       role |-> "button",
                       aria_haspopup |-> "listbox",
                       aria_labelledby |-> label_id \o " " \o selected_text_id,
                       label |-> label(p),
                       selected_text_id |-> selected_text_id ],
          menu |-> [ class |-> menu_classes(p),
                     role |-> "listbox",
                     aria_label |-> unwrap_or_default(p.label) \o " listbox",
                     children |-> Options ] ]

-----------------------------------------------------------------------------
(* Running the handler on the events it heard: each is recorded with what    *)
(* the closure did; a decoded one becomes a Changed message that update      *)
(* handles at once; a panic ends the program.                                *)
Heard(detail, origin) == [detail |-> detail, origin |-> origin]

RelayOne(st, e) ==
    LET c == changed_closure(e.detail)
        seen == Append(st.delivered,
                       [ detail |-> e.detail, origin |-> e.origin,
                         stopped |-> c.propagation_stopped ])
    IN  IF c.panic
        THEN [st EXCEPT !.delivered = seen, !.panicked = TRUE]
        ELSE LET u == update(st.self, st.props, c.emit[1])
             IN  [st EXCEPT !.delivered = seen,
                            !.self = u.self,
                            !.hostCalls = @ \o u.onchange,
                            !.needRender = @ \/ u.redraw]

RECURSIVE Relay(_, _)
Relay(st, heard) ==
    IF heard = <<>> \/ st.panicked
    THEN st
    ELSE Relay(RelayOne(st, Head(heard)), Tail(heard))

RelayState(self) ==
    [ self |-> self, props |-> props, delivered |-> delivered,
      hostCalls |-> hostCalls, needRender |-> needRender, panicked |-> panicked ]

Commit(st) ==
    /\ changed_callback' = st.self.changed_callback
    /\ inner' = st.self.inner
    /\ node_ref' = st.self.node_ref
    /\ delivered' = st.delivered
    /\ hostCalls' = st.hostCalls
    /\ needRender' = st.needRender
    /\ panicked' = st.panicked

Self == SelfOf(changed_callback, inner, node_ref)

-----------------------------------------------------------------------------
Init ==
    /\ phase = "unmounted"
    /\ mounts = 0
    /\ props \in SelectProps
    /\ changed_callback = None
    /\ inner = None
    /\ node_ref = None
    /\ html = None
    /\ needRender = FALSE
    /\ renderedDue = FALSE
    /\ hasRendered = FALSE
    /\ ctrl = NoController
    /\ calls = <<>>
    /\ delivered = <<>>
    /\ hostCalls = <<>>
    /\ panicked = FALSE

(* The host mounts a Select: a fresh instance is created and its first       *)
(* render is due.                                                            *)
Create ==
    /\ ~panicked
    /\ phase \in {"unmounted", "destroyed"}
    /\ mounts < MaxMounts
    /\ mounts' = mounts + 1
    /\ phase' = "mounted"
    /\ \E p \in SelectProps :
         /\ props' = p
         /\ LET self == create(p)
            IN  /\ changed_callback' = self.changed_callback
                /\ inner' = self.inner
                /\ node_ref' = self.node_ref
    /\ html' = None
    /\ needRender' = TRUE
    /\ renderedDue' = FALSE
    /\ hasRendered' = FALSE
    /\ ctrl' = NoController
    /\ calls' = <<>>
    /\ UNCHANGED <<delivered, hostCalls, panicked>>

(* The host re-renders with other properties. *)
PropsChanged ==
    /\ ~panicked
    /\ phase = "mounted"
    /\ \E p \in SelectProps \ {props} :
         /\ props' = p
         /\ needRender' = (needRender \/ changed(Self, p))
    /\ UNCHANGED <<phase, mounts, compVars, html, renderedDue, hasRendered,
                   ctrl, calls, delivered, hostCalls, panicked>>

(* The due render: view's markup replaces the tree, the node reference       *)
(* resolves to the root element, and rendered is due.                        *)
View ==
    /\ ~panicked
    /\ phase = "mounted"
    /\ needRender
    /\ html' = Some(view(Self, props))
    /\ node_ref' = Some("root")
    /\ needRender' = FALSE
    /\ renderedDue' = TRUE
    /\ UNCHANGED <<phase, mounts, props, changed_callback, inner, hasRendered,
                   ctrl, calls, delivered, hostCalls, panicked>>

(* The rendered hook, first_render true on the instance's first one; the     *)
(* events the handler heard during it are handled right after it.            *)
Rendered ==
    /\ ~panicked
    /\ phase = "mounted"
    /\ renderedDue
    /\ LET r == rendered(Self, props, World(ctrl, calls, <<>>), ~hasRendered)
           heard == [i \in 1..Len(r.w.heard) |-> Heard(r.w.heard[i], "set_value")]
       IN  /\ ctrl' = r.w.ctrl
           /\ calls' = r.w.calls
           /\ Commit(Relay(RelayState(r.self), heard))
    /\ renderedDue' = FALSE
    /\ hasRendered' = TRUE
    /\ UNCHANGED <<phase, mounts, props, html>>

(* The user picks an option: the controller emits MDCSelect:change on the    *)
(* root, and the registered handler hears it.                                *)
NativeChange ==
    /\ ~panicked
    /\ ctrl.listeners # {}
    /\ Len(delivered) < MaxEvents
    /\ \E d \in Details :
         Commit(Relay(RelayState(Self), <<Heard(d, "user")>>))
    /\ UNCHANGED <<phase, mounts, props, html, renderedDue, hasRendered, ctrl, calls>>

(* The host unmounts the Select: destroy runs, what was due is dropped. *)
Destroy ==
    /\ ~panicked
    /\ phase = "mounted"
    /\ phase' = "destroyed"
    /\ LET r == destroy(Self, World(ctrl, calls, <<>>))
       IN  /\ ctrl' = r.w.ctrl
           /\ calls' = r.w.calls
           /\ changed_callback' = r.self.changed_callback
           /\ inner' = r.self.inner
           /\ node_ref' = r.self.node_ref
    /\ needRender' = FALSE
    /\ renderedDue' = FALSE
    /\ UNCHANGED <<mounts, props, html, hasRendered, delivered, hostCalls, panicked>>

Next ==
    \/ Create
    \/ PropsChanged
    \/ View
    \/ Rendered
    \/ NativeChange
    \/ Destroy

Spec == Init /\ [][Next]_vars

-----------------------------------------------------------------------------
(* Notions the properties below are stated in. *)
Count(op) == Cardinality({i \in 1..Len(calls) : calls[i].op = op})
Before(a, b) ==
    \A i \in 1..Len(calls) :
        calls[i].op = b => \E j \in 1..(i - 1) : calls[j].op = a

(* The tree on screen is the render of the current properties. *)
Fresh == phase = "mounted" /\ is_some(html) /\ ~needRender
Idle == phase = "mounted" /\ hasRendered /\ ~needRender /\ ~renderedDue

WellFormed(d) == d.value.t = "string" /\ d.index.t = "number"
PayloadOf(d) == [value |-> d.value.s, index |-> d.index.n]

RECURSIVE PayloadsOf(_)
PayloadsOf(seq) ==
    IF seq = <<>> THEN <<>>
    ELSE IF WellFormed(Head(seq).detail)
         THEN <<PayloadOf(Head(seq).detail)>> \o PayloadsOf(Tail(seq))
         ELSE PayloadsOf(Tail(seq))

NoLabel == "mdc-select--no-label"
Fixed == "mdc-menu-surface--fixed"
FullWidth == "mdc-menu-surface--fullwidth"

(* C1: in every reachable state the controller has been constructed at most *)
(* once for the mounted instance: not at all before the first rendered hook *)
(* (so never in create), exactly once from the first rendered hook on       *)
(* however many renders follow, and against the root element that the view  *)
(* has put in the tree.                                                     *)
C1_ConstructedOncePerMount ==
    /\ Count("new") <= 1
    /\ ~hasRendered => Count("new") = 0
    /\ hasRendered => Count("new") = 1
    /\ \A i \in 1..Len(calls) :
         calls[i].op = "new" =>
            /\ is_some(html)
            /\ is_some(node_ref)
            /\ calls[i].arg = unwrap(node_ref)
            /\ ctrl.root = node_ref

C1_Witness ==
    /\ Idle
    /\ mounts = 2
    /\ Count("new") = 1
    /\ Count("set_value") = 1
    /\ is_none(props.selected_value)

(* C2: once destroy has run, a constructed controller has been unlistened   *)
(* exactly once and destroyed exactly once; with no controller constructed  *)
(* destroy made no call at all and did not fail; before destroy neither     *)
(* call has been made.                                                      *)
C2_ReleasedOnce ==
    /\ phase # "destroyed" => Count("unlisten") = 0 /\ Count("destroy") = 0
    /\ phase = "destroyed" /\ Count("new") = 1 =>
          /\ Count("unlisten") = 1
          /\ Count("destroy") = 1
          /\ ctrl.destroyed
    /\ phase = "destroyed" /\ Count("new") = 0 =>
          /\ calls = <<>>
          /\ ctrl = NoController
          /\ ~panicked

C2_Witness ==
    /\ phase = "destroyed"
    /\ Count("new") = 1
    /\ Count("unlisten") = 1
    /\ Count("destroy") = 1

(* C3: the host's onchange callback has been invoked exactly once for each  *)
(* well-formed change event the component received, in order, with that     *)
(* event's value and index, and every received event had its propagation    *)
(* stopped.                                                                 *)
C3_RelayedOnce ==
    /\ hostCalls = PayloadsOf(delivered)
    /\ \A i \in 1..Len(delivered) : delivered[i].stopped

C3_Witness ==
    /\ phase = "mounted"
    /\ delivered # <<>>
    /\ delivered[Len(delivered)].detail = JsDetail(JsString("b"), JsNumber(1))
    /\ delivered[Len(delivered)].stopped
    /\ hostCalls # <<>>
    /\ hostCalls[Len(hostCalls)] = [value |-> "b", index |-> 1]

(* C4: a change event whose detail is not {value: string, index: number}    *)
(* ends the program with a decode failure, and the host's callback is not   *)
(* invoked for it: the callback has run only for the well-formed events     *)
(* received before it.                                                      *)
C4_MalformedIsFatal ==
    \A i \in 1..Len(delivered) :
        ~WellFormed(delivered[i].detail) =>
            /\ panicked
            /\ i = Len(delivered)
            /\ Len(hostCalls) = i - 1
            /\ \A k \in 1..Len(hostCalls) :
                 hostCalls[k] = PayloadOf(delivered[k].detail)

C4_Witness ==
    /\ panicked
    /\ Len(delivered) = 2
    /\ delivered[2].detail = JsDetail(JsUndefined, JsNumber(1))
    /\ Len(hostCalls) = 1

(* C5: the mount step calls the controller in the order construct, setValue *)
(* with the pre-selected value (only if one was supplied), listen; so no    *)
(* listen precedes the construction, none precedes a setValue, and no       *)
(* change event emitted by setValue at mount reaches the handler.           *)
C5_Order ==
    /\ Before("new", "listen")
    /\ Before("new", "set_value")
    /\ \A i \in 1..Len(calls) :
         calls[i].op = "set_value" =>
            \A j \in 1..(i - 1) : calls[j].op # "listen"
    /\ \A i \in 1..Len(delivered) : delivered[i].origin # "set_value"

C5_MountStep ==
    (calls = <<>> /\ calls' # <<>>) =>
        /\ calls' = IF is_some(props.selected_value)
                    THEN << [op |-> "new", arg |-> "root"],
                            [op |-> "set_value", arg |-> unwrap(props.selected_value)],
                            [op |-> "listen", arg |-> "MDCSelect:change"] >>
                    ELSE << [op |-> "new", arg |-> "root"],
                            [op |-> "listen", arg |-> "MDCSelect:change"] >>
        /\ hostCalls' = hostCalls
        /\ delivered' = delivered

(* C5: the order construct, setValue (if a value was supplied), listen holds *)
(* in every state and of every mount step, and no event of the mount's     *)
(* setValue is relayed to the host.                                        *)
C5_MountOrder == []C5_Order /\ [][C5_MountStep]_vars

C5_Witness ==
    /\ phase = "mounted"
    /\ Len(calls) = 3
    /\ calls[2] = [op |-> "set_value", arg |-> "b"]
    /\ calls[3].op = "listen"
    /\ ctrl.value = Some("b")
    /\ delivered = <<>>
    /\ hostCalls = <<>>

(* C6: teardown unlistens before it destroys: every destroy call follows an *)
(* unlisten call, a destroyed controller has no handler registered, and     *)
(* after destroy no handler is left to relay a change event.                *)
C6_UnlistenBeforeDestroy ==
    /\ Before("unlisten", "destroy")
    /\ ctrl.destroyed => ctrl.listeners = {}
    /\ phase = "destroyed" => ctrl.listeners = {}

C6_Witness ==
    /\ phase = "destroyed"
    /\ ctrl.destroyed
    /\ Count("listen") = 1
    /\ calls[Len(calls) - 1].op = "unlisten"
    /\ calls[Len(calls)].op = "destroy"
    /\ delivered # <<>>

(* C7, as claimed: the slot holds a controller exactly from the first       *)
(* rendered hook until destroy, which clears it.                            *)
C7_SlotClearedByDestroy ==
    /\ is_some(inner) <=> (hasRendered /\ phase = "mounted")
    /\ phase = "destroyed" => is_none(inner)

(* C7, amended: the slot is filled exactly once, by the first rendered      *)
(* hook, and no hook clears it: destroy destroys the controller, exactly    *)
(* once, and leaves its handle in the slot. The controller is constructed   *)
(* by no hook but the first rendered and destroyed by none but destroy.     *)
C7_SlotFilledOnceNeverCleared ==
    /\ is_some(inner) <=> hasRendered
    /\ is_some(inner) <=> ctrl.exists
    /\ Count("new") <= 1
    /\ Count("destroy") <= 1
    /\ ctrl.destroyed <=> (phase = "destroyed" /\ hasRendered)
    /\ ctrl.destroyed => is_some(inner)

C7_Witness ==
    /\ phase = "destroyed"
    /\ is_some(inner)
    /\ ctrl.destroyed
    /\ Count("destroy") = 1

C10_UpdateStep ==
    (delivered' # delivered /\ ~panicked') =>
        /\ needRender' = needRender
        /\ renderedDue' = renderedDue
        /\ html' = html
        /\ changed_callback' = changed_callback
        /\ inner' = inner
        /\ node_ref' = node_ref
        /\ ctrl' = ctrl
        /\ hostCalls' = Append(hostCalls, PayloadOf(delivered'[Len(delivered')].detail))

(* C10: every step that handles a Changed message is such a step. *)
C10_UpdateOnlyCallsHost == [][C10_UpdateStep]_vars

C10_Witness ==
    /\ Idle
    /\ Len(delivered) = 2
    /\ Len(hostCalls) = 2
    /\ unwrap(html) = view(Self, props)

=============================================================================
